---- MODULE Spec2Model ----
(***************************************************************************)
(* State-machine model of zipline/lines.py: the SimulatedTrading zipline   *)
(* (the "Topology Coordinator"), several instances of which share one      *)
(* AddressAllocator.  Every method of SimulatedTrading is one action.      *)
(* AddressAllocator, Simulator, Controller and the components live in      *)
(* other modules of the repository; they are modelled by their contracts.  *)
(***************************************************************************)
EXTENDS Integers, Sequences, FiniteSets, TLC

\* ------------------------------------------------------------------ bounds
NumInstances == 2        \* topology instances sharing the allocator
PoolSize == 8            \* endpoints the allocator is seeded with
MaxCalls == 5            \* calls the callers make in one behaviour

\* ------------------------------------------------------- program constants
NumSockets == 8          \* allocate_sockets(8)

Instances == 1..NumInstances
Endpoints == 1..PoolSize

None == "None"

\* The six roles of the address map handed to Simulator.
Roles ==
  {"sync_address", "data_address", "feed_address",
   "merge_address", "result_address", "order_address"}

\* ------------------------------------------------------------- components
\* A component is an object with an identity (get_id) and a class.
TradingClient == [name |-> "trading_client", id |-> "TRADING_CLIENT", kind |-> "Client"]
OrderSource == [name |-> "order_source", id |-> "ORDER_SOURCE", kind |-> "DataSource"]
TransactionSim == [name |-> "transaction_sim", id |-> "TRANSACTION_SIM", kind |-> "BaseTransform"]

\* Objects a caller may pass to add_source / add_transform.
CallerComponents ==
  { [name |-> "src1", id |-> "SRC_A", kind |-> "DataSource"],
    [name |-> "src2", id |-> "ORDER_SOURCE", kind |-> "DataSource"],
    [name |-> "src3", id |-> "SRC_A", kind |-> "DataSource"],
    [name |-> "xf1", id |-> "TRANSACTION_SIM", kind |-> "BaseTransform"],
    [name |-> "xf2", id |-> "XF_A", kind |-> "BaseTransform"],
    [name |-> "misc", id |-> "MISC", kind |-> "Other"] }

EmptyMap == [x \in {} |-> x]

\* d[k] = v on a dict
DictPut(d, k, v) == [x \in (DOMAIN d) \cup {k} |-> IF x = k THEN v ELSE d[x]]

SeqToSet(s) == {s[k] : k \in 1..Len(s)}

VARIABLES
  pool,            \* allocator: endpoints free to be leased
  leasedOut,       \* allocator: endpoints currently leased
  phase,           \* per instance: "none" | "built" | "failed"
  leased_sockets,  \* self.leased_sockets
  addresses,       \* the dict given to Simulator(addresses)
  con,             \* the two endpoints given to Controller
  clients,         \* self.clients
  sources,         \* self.sources
  transforms,      \* self.transforms
  simComponents,   \* components passed to sim.register_components
  on_done,         \* self.sim.on_done
  sim_controller,  \* the controller given to sim.register_controller
  event_callback,  \* the callback given to trading_client.add_event_callback
  algo_order,      \* the function given to algorithm.set_order
  started,         \* self.started
  sim_context,     \* self.sim_context
  joining,         \* a caller is blocked in sim_context.join()
  leaseCalls,      \* calls of allocator.lease made by the instance
  reclaimCalls,    \* calls of allocator.reaquire made by the instance
  shutdownCalls,   \* calls of shutdown() made by the caller
  simStarts,       \* calls of sim.simulate() made by the instance
  outcome,         \* the last call made by a caller and how it ended
  calls            \* calls made by the callers so far

vars ==
  <<pool, leasedOut, phase, leased_sockets, addresses, con, clients, sources,
    transforms, simComponents, on_done, started, sim_context, joining,
    leaseCalls, reclaimCalls, shutdownCalls, simStarts, outcome, calls,
    sim_controller, event_callback, algo_order>>

\* what only the constructor sets: the controller and the two callbacks
wiring == <<sim_controller, event_callback, algo_order>>

\* ----------------------------------------------------- AddressAllocator
\* lease(n): n free endpoints, lowest first, or ExhaustionError with the
\* pool untouched.
RECURSIVE LowestFirst(_, _)
LowestFirst(S, n) ==
  IF n = 0 \/ S = {} THEN <<>>
  ELSE LET m == CHOOSE x \in S : \A y \in S : x <= y
       IN <<m>> \o LowestFirst(S \ {m}, n - 1)

Lease(free, out, n) ==
  IF Cardinality(free) < n
  THEN [result |-> "ExhaustionError", sockets |-> <<>>, free |-> free, out |-> out]
  ELSE LET s == LowestFirst(free, n)
       IN [result |-> "ok", sockets |-> s,
           free |-> free \ SeqToSet(s), out |-> out \cup SeqToSet(s)]

\* reaquire(*endpoints): hands the endpoints back, or NotLeasedError with
\* the pool untouched when one of them is not leased.
Reaquire(free, out, socks) ==
  IF SeqToSet(socks) \subseteq out
  THEN [result |-> "ok", free |-> free \cup SeqToSet(socks), out |-> out \ SeqToSet(socks)]
  ELSE [result |-> "NotLeasedError", free |-> free, out |-> out]

\* ------------------------------------------------------ SimulatedTrading
\* the address dict with an index slip: order_address reuses sockets[4]
AddressesSlip(sockets) ==
  [r \in Roles |->
     CASE r = "sync_address" -> sockets[1]
       [] r = "data_address" -> sockets[2]
       [] r = "feed_address" -> sockets[3]
       [] r = "merge_address" -> sockets[4]
       [] r = "result_address" -> sockets[5]
       [] r = "order_address" -> sockets[5]]

\* addresses = {'sync_address': sockets[0], ...} (0-based in the source)
Addresses(sockets) ==
  [r \in Roles |->
     CASE r = "sync_address" -> sockets[1]
       [] r = "data_address" -> sockets[2]
       [] r = "feed_address" -> sockets[3]
       [] r = "merge_address" -> sockets[4]
       [] r = "result_address" -> sockets[5]
       [] r = "order_address" -> sockets[6]]

\* Controller(sockets[6], sockets[7], ...)
ControllerChannels(sockets) == <<sockets[7], sockets[8]>>

\* raise ZiplineException(msg): __init__(msg) takes no self, so building the
\* exception object itself raises TypeError.
RaiseZiplineException == "TypeError"

\* check_started(): the error it raises, or "ok"
CheckStarted(isStarted) == IF isStarted THEN RaiseZiplineException ELSE "ok"

\* self.sim.on_done = self.shutdown(): the value of the call, not the method
OnDoneValue == None

Call(op, i, arg, result, value) ==
  [op |-> op, inst |-> i, arg |-> arg, result |-> result, value |-> value]

Init ==
  /\ pool \in {Endpoints, 1..(NumSockets - 1)}
  /\ leasedOut = {}
  /\ phase = [i \in Instances |-> "none"]
  /\ leased_sockets = [i \in Instances |-> <<>>]
  /\ addresses = [i \in Instances |-> EmptyMap]
  /\ con = [i \in Instances |-> <<>>]
  /\ clients = [i \in Instances |-> EmptyMap]
  /\ sources = [i \in Instances |-> EmptyMap]
  /\ transforms = [i \in Instances |-> EmptyMap]
  /\ simComponents = [i \in Instances |-> {}]
  /\ on_done = [i \in Instances |-> None]
  /\ sim_controller = [i \in Instances |-> None]
  /\ event_callback = [i \in Instances |-> None]
  /\ algo_order = [i \in Instances |-> None]
  /\ started = [i \in Instances |-> FALSE]
  /\ sim_context = [i \in Instances |-> None]
  /\ joining = [i \in Instances |-> FALSE]
  /\ leaseCalls = [i \in Instances |-> 0]
  /\ reclaimCalls = [i \in Instances |-> 0]
  /\ shutdownCalls = [i \in Instances |-> 0]
  /\ simStarts = [i \in Instances |-> 0]
  /\ outcome = Call("none", 0, None, "ok", None)
  /\ calls = 0

\* a constructor that leaves the client's event callback unset
EventCallbackUnset == None

\* trading_client.add_event_callback(self.algorithm.handle_frame)
EventCallback == "algorithm.handle_frame"

\* algorithm.set_order(self.trading_client.order)
AlgoOrder == "trading_client.order"

\* allocate_sockets(n) that records the endpoints it is about to ask for
\* before the lease has succeeded
AllocateSocketsEager(free, out, recorded, n) ==
  LET l == Lease(free, out, n)
  IN [result |-> l.result, sockets |-> l.sockets, free |-> l.free, out |-> l.out,
      leased_sockets |-> recorded \o LowestFirst(free, n)]

\* allocate_sockets(n): lease, then extend self.leased_sockets; an error of
\* lease leaves the method before the record is touched
AllocateSockets(free, out, recorded, n) ==
  LET l == Lease(free, out, n)
  IN [result |-> l.result, sockets |-> l.sockets, free |-> l.free, out |-> l.out,
      leased_sockets |-> IF l.result = "ok" THEN recorded \o l.sockets ELSE recorded]

\* __init__(algorithm, trading_environment, allocator)
Construct(i) ==
  /\ phase[i] = "none"
  /\ calls < MaxCalls
  /\ calls' = calls + 1
  /\ LET l == AllocateSockets(pool, leasedOut, <<>>, NumSockets)
         \* self.shutdown() evaluated for the on_done assignment
         r == Reaquire(l.free, l.out, l.leased_sockets)
     IN /\ leaseCalls' = [leaseCalls EXCEPT ![i] = @ + 1]
        /\ IF l.result # "ok"
           THEN /\ phase' = [phase EXCEPT ![i] = "failed"]
                /\ outcome' = Call("init", i, None, l.result, None)
                /\ pool' = l.free
                /\ leasedOut' = l.out
                /\ leased_sockets' = [leased_sockets EXCEPT ![i] = l.leased_sockets]
                /\ UNCHANGED <<addresses, con, clients, sources,
                               transforms, simComponents, on_done, reclaimCalls>>
                /\ UNCHANGED wiring
           ELSE /\ phase' = [phase EXCEPT ![i] = "built"]
                /\ leased_sockets' = [leased_sockets EXCEPT ![i] = l.leased_sockets]
                /\ addresses' = [addresses EXCEPT ![i] = Addresses(l.sockets)]
                /\ con' = [con EXCEPT ![i] = ControllerChannels(l.sockets)]
                /\ clients' = [clients EXCEPT ![i] =
                                 DictPut(EmptyMap, TradingClient.id, TradingClient)]
                /\ sources' = [sources EXCEPT ![i] =
                                 DictPut(EmptyMap, OrderSource.id, OrderSource)]
                /\ transforms' = [transforms EXCEPT ![i] =
                                 DictPut(EmptyMap, TransactionSim.id, TransactionSim)]
                /\ simComponents' = [simComponents EXCEPT ![i] =
                                 {TradingClient, OrderSource, TransactionSim}]
                /\ sim_controller' = [sim_controller EXCEPT ![i] = "con"]
                /\ on_done' = [on_done EXCEPT ![i] = OnDoneValue]
                /\ event_callback' = [event_callback EXCEPT ![i] = EventCallback]
                /\ algo_order' = [algo_order EXCEPT ![i] = AlgoOrder]
                /\ reclaimCalls' = [reclaimCalls EXCEPT ![i] = @ + 1]
                /\ pool' = r.free
                /\ leasedOut' = r.out
                /\ outcome' = Call("init", i, None, r.result, None)
  /\ UNCHANGED <<started, sim_context, joining, shutdownCalls, simStarts>>

\* an empty list passed to register_components
ComponentListEmpty(c) == {}

\* self.sim.register_components([component]): the list passed
ComponentList(c) == {c}

\* the assert of the argument's class left out
AssertSkipped(c, cls) == "ok"

\* assert isinstance(component, cls)
AssertIsInstance(c, cls) == IF c.kind = cls THEN "ok" ELSE "AssertionError"

\* add_source(source)
AddSource(i, c) ==
  /\ phase[i] = "built"
  /\ calls < MaxCalls
  /\ calls' = calls + 1
  /\ LET res == IF AssertIsInstance(c, "DataSource") # "ok" THEN "AssertionError"
                ELSE CheckStarted(started[i])
     IN /\ outcome' = Call("add_source", i, c, res, None)
        /\ IF res = "ok"
           THEN /\ simComponents' = [simComponents EXCEPT ![i] = @ \cup ComponentList(c)]
                /\ sources' = [sources EXCEPT ![i] = DictPut(@, c.id, c)]
           ELSE UNCHANGED <<simComponents, sources>>
  /\ UNCHANGED <<pool, leasedOut, phase, leased_sockets, addresses, con, clients,
                 transforms, on_done, started, sim_context, joining, leaseCalls,
                 reclaimCalls, shutdownCalls, simStarts>>
  /\ UNCHANGED wiring

\* add_transform(transform): the last line stores into self.sources
AddTransform(i, c) ==
  /\ phase[i] = "built"
  /\ calls < MaxCalls
  /\ calls' = calls + 1
  /\ LET res == IF AssertIsInstance(c, "BaseTransform") # "ok" THEN "AssertionError"
                ELSE CheckStarted(started[i])
     IN /\ outcome' = Call("add_transform", i, c, res, None)
        /\ IF res = "ok"
           THEN /\ simComponents' = [simComponents EXCEPT ![i] = @ \cup ComponentList(c)]
                /\ sources' = [sources EXCEPT ![i] = DictPut(@, c.id, c)]
           ELSE UNCHANGED <<simComponents, sources>>
  /\ UNCHANGED <<pool, leasedOut, phase, leased_sockets, addresses, con, clients,
                 transforms, on_done, started, sim_context, joining, leaseCalls,
                 reclaimCalls, shutdownCalls, simStarts>>
  /\ UNCHANGED wiring

\* simulate(blocking) that never joins the run context
JoinNever(blocking, wasJoining) == wasJoining

\* if blocking: self.sim_context.join(): whether a caller is blocked in join
\* once sim.simulate() has returned
JoinAfterStart(blocking, wasJoining) == wasJoining \/ blocking

\* self.started assigned from the result of sim.simulate(), after the call
StartedAfterRuntime(simOk) == simOk

\* self.started = True, the first statement of simulate, whatever
\* sim.simulate() does afterwards
StartedBySimulate(simOk) == TRUE

\* simulate(blocking): no check of self.started; started is set before
\* sim.simulate() is called, which returns the run context or raises (simOk);
\* with blocking the caller stays in sim_context.join() until the run
\* context is done
Simulate(i, blocking, simOk) ==
  /\ phase[i] = "built"
  /\ calls < MaxCalls
  /\ calls' = calls + 1
  /\ started' = [started EXCEPT ![i] = StartedBySimulate(simOk)]
  /\ simStarts' = [simStarts EXCEPT ![i] = @ + 1]
  /\ IF simOk
     THEN /\ sim_context' = [sim_context EXCEPT ![i] = "running"]
          /\ joining' = [joining EXCEPT ![i] = JoinAfterStart(blocking, @)]
          /\ outcome' = Call("simulate", i, blocking, "ok", None)
     ELSE /\ UNCHANGED <<sim_context, joining>>
          /\ outcome' = Call("simulate", i, blocking, "SimulatorError", None)
  /\ UNCHANGED <<pool, leasedOut, phase, leased_sockets, addresses, con, clients,
                 sources, transforms, simComponents, on_done, leaseCalls,
                 reclaimCalls, shutdownCalls>>
  /\ UNCHANGED wiring

\* shutdown(): one allocator.reaquire(*self.leased_sockets) per call
Shutdown(i) ==
  /\ phase[i] = "built"
  /\ calls < MaxCalls
  /\ calls' = calls + 1
  /\ LET r == Reaquire(pool, leasedOut, leased_sockets[i])
     IN /\ pool' = r.free
        /\ leasedOut' = r.out
        /\ outcome' = Call("shutdown", i, None, r.result, None)
  /\ reclaimCalls' = [reclaimCalls EXCEPT ![i] = @ + 1]
  /\ shutdownCalls' = [shutdownCalls EXCEPT ![i] = @ + 1]
  /\ UNCHANGED <<phase, leased_sockets, addresses, con, clients, sources,
                 transforms, simComponents, on_done, started, sim_context,
                 joining, leaseCalls, simStarts>>
  /\ UNCHANGED wiring

\* get_cumulative_performance(): no return statement, the value is None
GetCumulativePerformance(i) ==
  /\ phase[i] = "built"
  /\ calls < MaxCalls
  /\ calls' = calls + 1
  /\ outcome' = Call("get_cumulative_performance", i, None, "ok", None)
  /\ UNCHANGED <<pool, leasedOut, phase, leased_sockets, addresses, con, clients,
                 sources, transforms, simComponents, on_done, started,
                 sim_context, joining, leaseCalls, reclaimCalls, shutdownCalls,
                 simStarts>>
  /\ UNCHANGED wiring

\* get_positions() with a check of self.started in front
GetPositionsGuarded(i) ==
  /\ phase[i] = "built"
  /\ calls < MaxCalls
  /\ calls' = calls + 1
  /\ outcome' = IF started[i]
                THEN Call("get_positions", i, None, "ok", "positions")
                ELSE Call("get_positions", i, None, "NotStartedError", None)
  /\ UNCHANGED <<pool, leasedOut, phase, leased_sockets, addresses, con, clients,
                 sources, transforms, simComponents, on_done, started,
                 sim_context, joining, leaseCalls, reclaimCalls, shutdownCalls,
                 simStarts>>
  /\ UNCHANGED wiring

\* get_positions(): the positions of the client's performance tracker
GetPositions(i) ==
  /\ phase[i] = "built"
  /\ calls < MaxCalls
  /\ calls' = calls + 1
  /\ outcome' = Call("get_positions", i, None, "ok", "positions")
  /\ UNCHANGED <<pool, leasedOut, phase, leased_sockets, addresses, con, clients,
                 sources, transforms, simComponents, on_done, started,
                 sim_context, joining, leaseCalls, reclaimCalls, shutdownCalls,
                 simStarts>>
  /\ UNCHANGED wiring

\* The Simulator's run context ends, normally ("finished") or killed by the
\* Controller ("faulted"); the Simulator then calls on_done when it holds a
\* callable, and a caller blocked in join() returns.
RunCompletes(i, how) ==
  /\ sim_context[i] = "running"
  /\ sim_context' = [sim_context EXCEPT ![i] = how]
  /\ joining' = [joining EXCEPT ![i] = FALSE]
  /\ IF on_done[i] = None
     THEN UNCHANGED <<pool, leasedOut, reclaimCalls>>
     ELSE LET r == Reaquire(pool, leasedOut, leased_sockets[i])
          IN /\ pool' = r.free
             /\ leasedOut' = r.out
             /\ reclaimCalls' = [reclaimCalls EXCEPT ![i] = @ + 1]
  /\ UNCHANGED <<phase, leased_sockets, addresses, con, clients, sources,
                 transforms, simComponents, on_done, started, leaseCalls,
                 shutdownCalls, simStarts, outcome, calls>>
  /\ UNCHANGED wiring

Next ==
  \/ \E i \in Instances : Construct(i)
  \/ \E i \in Instances, c \in CallerComponents : AddSource(i, c)
  \/ \E i \in Instances, c \in CallerComponents : AddTransform(i, c)
  \/ \E i \in Instances, b \in BOOLEAN, ok \in BOOLEAN : Simulate(i, b, ok)
  \/ \E i \in Instances : Shutdown(i)
  \/ \E i \in Instances : GetCumulativePerformance(i)
  \/ \E i \in Instances : GetPositions(i)
  \/ \E i \in Instances, how \in {"finished", "faulted"} : RunCompletes(i, how)

Spec == Init /\ [][Next]_vars

\* ================================================================ claims
Built(i) == phase[i] = "built"

RunDone(i) == sim_context[i] \in {"finished", "faulted"}

\* the endpoints an instance has bound: its address map and its controller
BoundEndpoints(i) ==
  {addresses[i][r] : r \in DOMAIN addresses[i]} \cup SeqToSet(con[i])

\* the identities an instance has registered, in any of its three dicts
RegisteredIds(i) ==
  (DOMAIN sources[i]) \cup (DOMAIN transforms[i]) \cup (DOMAIN clients[i])

\* a step in which a caller's call of one of ops is made on instance i
CallStep(i, ops) ==
  /\ calls' = calls + 1
  /\ outcome'.inst = i
  /\ outcome'.op \in ops

\* C1: shutdown is idempotent: whatever the calls, an instance makes at most
\* one reclaim call on the allocator, so a repeated shutdown() reclaims
\* nothing more.
C1_ShutdownReclaimsOnce ==
  \A i \in Instances : reclaimCalls[i] <= 1

\* C2: construction performs no reclamation: from the end of construction
\* until shutdown() is requested or the run completes, the 8 endpoints the
\* instance leased are still leased from the allocator.
C2_LeaseKeptUntilShutdown ==
  \A i \in Instances :
    (Built(i) /\ shutdownCalls[i] = 0 /\ ~RunDone(i)) =>
      /\ Len(leased_sockets[i]) = NumSockets
      /\ SeqToSet(leased_sockets[i]) \subseteq leasedOut
      /\ SeqToSet(leased_sockets[i]) \cap pool = {}

\* C3: two instances sharing the allocator, neither shut down yet, never
\* have an endpoint in common in their address maps and controller pairs.
C3_NoSharedEndpoint ==
  \A i, j \in Instances :
    (i # j /\ Built(i) /\ Built(j)
       /\ shutdownCalls[i] = 0 /\ shutdownCalls[j] = 0
       /\ ~RunDone(i) /\ ~RunDone(j)) =>
      BoundEndpoints(i) \cap BoundEndpoints(j) = {}

\* C4: an add_source or add_transform call (with a component of the right
\* class) made after simulate fails with the already-started error
\* (ZiplineException).
C4_AddAfterRunIsAlreadyStarted ==
  (/\ outcome.op \in {"add_source", "add_transform"}
   /\ started[outcome.inst]
   /\ outcome.arg.kind =
        (IF outcome.op = "add_source" THEN "DataSource" ELSE "BaseTransform"))
    => outcome.result = "ZiplineException"

\* C5: the runtime is started at most once per instance: a simulate call
\* on a started instance does not call sim.simulate() again.
C5_RuntimeStartedOnce ==
  \A i \in Instances : simStarts[i] <= 1

\* C6: registering, before the run, a component whose identity is already
\* registered fails with DuplicateComponentError and changes no registry.
C6_DuplicateRejected ==
  [][\A i \in Instances :
       (/\ CallStep(i, {"add_source", "add_transform"})
        /\ ~started[i]
        /\ outcome'.arg.kind =
             (IF outcome'.op = "add_source" THEN "DataSource" ELSE "BaseTransform")
        /\ outcome'.arg.id \in RegisteredIds(i))
       => (/\ outcome'.result = "DuplicateComponentError"
           /\ sources'[i] = sources[i]
           /\ transforms'[i] = transforms[i]
           /\ clients'[i] = clients[i])]_vars

\* C7: a constructed instance made exactly one lease call for 8 endpoints;
\* its address map has exactly the six roles, bound to six different
\* endpoints, and the controller holds the two other leased endpoints.
C7_EightLeasedSixRoles ==
  \A i \in Instances :
    Built(i) =>
      /\ leaseCalls[i] = 1
      /\ Len(leased_sockets[i]) = 8
      /\ Cardinality(SeqToSet(leased_sockets[i])) = 8
      /\ DOMAIN addresses[i] =
           {"sync_address", "data_address", "feed_address",
            "merge_address", "result_address", "order_address"}
      /\ Cardinality({addresses[i][r] : r \in DOMAIN addresses[i]}) = 6
      /\ Len(con[i]) = 2
      /\ con[i][1] # con[i][2]
      /\ SeqToSet(con[i]) \cap {addresses[i][r] : r \in DOMAIN addresses[i]} = {}
      /\ BoundEndpoints(i) = SeqToSet(leased_sockets[i])

C7_Witness ==
  \E i \in Instances : Built(i) /\ Cardinality(BoundEndpoints(i)) = 8

\* C8: when the run context of a started run ends, finished or faulted,
\* the completion itself performs the shutdown reclamation: a reclaim call
\* is made and the leased endpoints are back in the pool.
C8_CompletionReclaims ==
  [][\A i \in Instances :
       (sim_context[i] = "running" /\ RunDone(i)')
       => (/\ reclaimCalls'[i] = reclaimCalls[i] + 1
           /\ SeqToSet(leased_sockets[i]) \subseteq pool')]_vars

\* C9: after a caller's shutdown() no add_source, add_transform or
\* simulate call on the instance is accepted.
C9_NothingAcceptedAfterShutdown ==
  (/\ outcome.op \in {"add_source", "add_transform", "simulate"}
   /\ shutdownCalls[outcome.inst] >= 1)
    => outcome.result # "ok"

C11_FailedLeaseLeavesNothing ==
  [][\A i \in Instances :
       /\ (CallStep(i, {"init"}) /\ Cardinality(pool) < NumSockets)
            => (/\ outcome'.result = "ExhaustionError"
                /\ phase'[i] = "failed"
                /\ pool' = pool
                /\ leasedOut' = leasedOut
                /\ leased_sockets'[i] = <<>>)
       /\ phase[i] = "failed"
            => (/\ phase'[i] = "failed"
                /\ leased_sockets'[i] = <<>>
                /\ reclaimCalls'[i] = 0)]_vars

C11_Witness ==
  \E i \in Instances :
    /\ phase[i] = "failed"
    /\ outcome.op = "init"
    /\ outcome.inst = i
    /\ outcome.result = "ExhaustionError"

\* C12: the three registries are disjoint by capability: self.sources
\* holds only data sources, self.transforms only transforms, among them
\* every transform add_transform accepted, and self.clients only the
\* trading client.
C12_RegistriesByCapability ==
  \A i \in Instances :
    /\ \A k \in DOMAIN sources[i] : sources[i][k].kind = "DataSource"
    /\ \A k \in DOMAIN transforms[i] : transforms[i][k].kind = "BaseTransform"
    /\ \A k \in DOMAIN clients[i] : clients[i][k] = TradingClient
    /\ \A c \in simComponents[i] :
         c.kind = "BaseTransform" => c.id \in DOMAIN transforms[i]

\* C13: a simulate(blocking=True) call whose run started leaves its caller
\* blocked in join, and a blocked caller is released only by the step that
\* ends the run context; a simulate(blocking=False) call blocks nobody and
\* leaves the instance started with its run context running.
C13_BlockingJoinsTheRun ==
  [][\A i \in Instances :
       /\ (CallStep(i, {"simulate"}) /\ outcome'.result = "ok" /\ outcome'.arg = TRUE)
            => (joining'[i] /\ sim_context'[i] = "running")
       /\ (joining[i] /\ ~joining'[i])
            => (sim_context[i] = "running" /\ RunDone(i)')
       /\ (CallStep(i, {"simulate"}) /\ outcome'.result = "ok" /\ outcome'.arg = FALSE)
            => (/\ joining'[i] = joining[i]
                /\ started'[i]
                /\ sim_context'[i] = "running")]_vars

C13_Witness ==
  \E i \in Instances :
    /\ outcome.op = "simulate"
    /\ outcome.inst = i
    /\ outcome.arg = TRUE
    /\ joining[i]
    /\ sim_context[i] = "running"

\* C14: whenever the runtime of an instance has been started, and so
\* whenever its components can produce or deliver events, the client's
\* event callback is the algorithm's handle_frame and the algorithm's
\* order function is the client's order method.
C14_CallbacksBoundBeforeStart ==
  \A i \in Instances :
    (simStarts[i] >= 1 \/ sim_context[i] # None \/ started[i]) =>
      /\ event_callback[i] = "algorithm.handle_frame"
      /\ algo_order[i] = "trading_client.order"

C14_Witness ==
  \E i \in Instances :
    /\ sim_context[i] = "running"
    /\ event_callback[i] = "algorithm.handle_frame"
    /\ algo_order[i] = "trading_client.order"

\* C15: add_source with an argument that is no DataSource, and
\* add_transform with one that is no BaseTransform, fail with the
\* assertion error in every lifecycle state, started or not, and leave the
\* registries, the runtime's components and the started flag unchanged.
C15_WrongClassRejected ==
  [][\A i \in Instances :
       (/\ CallStep(i, {"add_source", "add_transform"})
        /\ outcome'.arg.kind #
             (IF outcome'.op = "add_source" THEN "DataSource" ELSE "BaseTransform"))
       => (/\ outcome'.result = "AssertionError"
           /\ sources' = sources
           /\ transforms' = transforms
           /\ clients' = clients
           /\ simComponents' = simComponents
           /\ started' = started)]_vars

C15_Witness ==
  /\ outcome.op = "add_transform"
  /\ outcome.arg.kind = "DataSource"
  /\ outcome.result = "AssertionError"
  /\ started[outcome.inst]

\* C16: the started flag is monotonic: it is false while no simulate call
\* was made, true as soon as sim.simulate() has been called even when that
\* call failed, only a simulate call sets it, and no step resets it.
C16_StartedMonotonic ==
  [][\A i \in Instances :
       /\ started[i] => started'[i]
       /\ (~started[i] /\ started'[i]) => CallStep(i, {"simulate"})
       /\ started'[i] <=> (simStarts'[i] >= 1)]_vars

C16_Witness ==
  \E i \in Instances :
    /\ started[i]
    /\ outcome.inst = i
    /\ outcome.op = "simulate"
    /\ outcome.result = "SimulatorError"
    /\ shutdownCalls[i] >= 1

\* C17: every component held in self.sources, self.transforms or
\* self.clients of an instance has been passed to the runtime's
\* register_components.
C17_RegistriesKnownToRuntime ==
  \A i \in Instances :
    /\ \A k \in DOMAIN sources[i] : sources[i][k] \in simComponents[i]
    /\ \A k \in DOMAIN transforms[i] : transforms[i][k] \in simComponents[i]
    /\ \A k \in DOMAIN clients[i] : clients[i][k] \in simComponents[i]

C17_Witness ==
  \E i \in Instances :
    /\ "SRC_A" \in DOMAIN sources[i]
    /\ "XF_A" \in DOMAIN sources[i]
    /\ sources[i]["SRC_A"] \in simComponents[i]
    /\ sources[i]["XF_A"] \in simComponents[i]

\* C18: the record of leased endpoints of an instance only grows, and the
\* endpoints a shutdown() passes to the allocator's reclaim, the whole
\* record, are this instance's own leases and none of them is an endpoint
\* that another instance leased.
C18_ReclaimsOnlyOwnLeases ==
  [][\A i \in Instances :
       /\ Len(leased_sockets[i]) <= Len(leased_sockets'[i])
       /\ SubSeq(leased_sockets'[i], 1, Len(leased_sockets[i])) = leased_sockets[i]
       /\ CallStep(i, {"shutdown"})
            => \A j \in Instances \ {i} :
                 SeqToSet(leased_sockets[i]) \cap SeqToSet(leased_sockets[j]) = {}]_vars

====
